---- MODULE Spec2Model ----
(***************************************************************************)
(* A model of src/vs/workbench/contrib/terminal/browser/terminalTabsList.ts *)
(* (the terminal tabs list): the drag-and-drop handler                      *)
(* TerminalTabsDragAndDrop, the row renderer TerminalTabsRenderer and the   *)
(* event handlers TerminalTabList's constructor registers.                  *)
(*                                                                          *)
(* Indexes are 0-based as in the source; rows[i + 1] is the row at index i. *)
(***************************************************************************)
EXTENDS Integers, Sequences, FiniteSets

(* ------------------------------ bounds --------------------------------- *)

\* Terminal instances the service creates in one run of the renderer
\* specification (instance ids 1..MaxInstances).
MaxInstances == 3
\* Terminal instances the service creates in one run of the list specification.
MaxTabs == 2
\* Rows a drag can target in the drag-and-drop specification.
NumDndTargets == 2
\* Timeouts the event loop can hold at once.
NumSlots == 2
\* External drops with a path in one run.
MaxDrops == 2

\* Active-instance-changed notifications waiting for delivery.
MaxPending == 1
\* Listeners one row template holds before disposeElement runs.
MaxListeners == 2

(* ---------------------- TerminalTabsListSizes -------------------------- *)

NarrowViewWidth == 46
WideViewMinimumWidth == 80
DefaultWidth == 120
MidpointViewWidth == (NarrowViewWidth + WideViewMinimumWidth) \div 2
ActionbarMinimumWidth == 105

\* Severity.Ignore
SeverityIgnore == 0

(* ------------------------------ values --------------------------------- *)

\* undefined (no instance, no index, Disposable.None)
None == 0

\* '' and undefined: both are falsy in `if (!path)`
NoPath == << >>

Paths == { <<"/", "a">>, <<"/", "b", " ", "c">> }

\* URI.file(path): the file URI of a filesystem path
UriFile(path) == << "file://" >> \o path

\* uri.fsPath: the filesystem path of a file URI
FsPath(uri) == SubSeq(uri, 2, Len(uri))

HasSpace(path) == \E i \in 1 .. Len(path) : path[i] = " "

\* ITerminalInstanceService.preparePathForTerminalAsync: the path as the
\* instance's shell takes it (a path with a space is quoted).
PreparePathForTerminalAsync(originalPath) ==
    IF HasSpace(originalPath) THEN << "'" >> \o originalPath \o << "'" >>
    ELSE originalPath

\* DragEvent.dataTransfer as drop receives it: absent, or holding the RESOURCES
\* entry (a list of URIs, empty when getData returns '') and the files (each
\* file's path, NoPath outside Electron): a drag of text, of explorer
\* resources, of files, and of resources together with a file.
DataTransferValues ==
    { [present |-> FALSE, resources |-> << >>, files |-> << >>],
      [present |-> TRUE, resources |-> << >>, files |-> << >>],
      [present |-> TRUE, resources |-> << >>, files |-> << NoPath >>] }
    \cup { [present |-> TRUE, resources |-> << UriFile(p) >>, files |-> << >>] : p \in Paths }
    \cup { [present |-> TRUE, resources |-> << >>, files |-> << p >>] : p \in Paths }
    \cup { [present |-> TRUE, resources |-> << UriFile(pq[1]) >>, files |-> << pq[2] >>] :
                pq \in { x \in Paths \X Paths : x[1] # x[2] } }

\* indexOf: the 0-based index of the first x in seq, -1 when there is none
IndexOf(seq, x) ==
    IF \E i \in DOMAIN seq : seq[i] = x
    THEN (CHOOSE i \in DOMAIN seq : seq[i] = x /\ \A j \in 1 .. i - 1 : seq[j] # x) - 1
    ELSE -1

Count(seq, x) == Cardinality({ i \in DOMAIN seq : seq[i] = x })

RECURSIVE Flatten(_)
Flatten(gs) == IF gs = << >> THEN << >> ELSE Head(gs) \o Flatten(Tail(gs))

(* ------------------------------- state --------------------------------- *)

VARIABLES
    groups,               \* the terminal service's split groups, each a list of instances
    nextId,               \* the id of the next instance the service creates
    clientWidth,          \* TerminalTabsRenderer._container.clientWidth
    template,             \* a row's ITerminalTabEntryTemplate (reused between renders)
    lastRender,           \* history: the latest renderElement call and the template it got
    activeInstance,       \* the terminal service's active instance
    autoFocusInstance,    \* TerminalTabsDragAndDrop._autoFocusInstance
    autoFocusDisposable,  \* TerminalTabsDragAndDrop._autoFocusDisposable: a timeout's handle
    timers,               \* the event loop's pending timeouts: slot -> the row its callback captured
    preparing,            \* the _handleExternalDrop calls at their await: how many per (instance, path)
    input,                \* how often sendText delivered each text to each instance
    dropped,              \* history: the drops that reached the await, per (instance, path)
    focused,              \* the instance focus() was last called on
    hoverTarget,          \* history: the target of the latest onDragOver of this drag
    hoverFired,           \* history: the timer activated hoverTarget during this hover
    hoverRefired,         \* history: and it did so again during the same hover
    firedStale,           \* history: a timer activated a row other than hoverTarget
    lastEvent,            \* history: the drag-and-drop handler that ran last, and its arguments
    rows,                 \* TerminalTabList: the elements the list holds, by index
    selection,            \* the list's selected indexes
    focus,                \* the list's focused indexes
    instancesDirty,       \* an onInstancesChanged notification is waiting for delivery
    activeQueue,          \* the onActiveInstanceChanged notifications waiting for delivery
    lastInput             \* history: the list handler that ran last, and its arguments

dndVars == << autoFocusInstance, autoFocusDisposable, timers, preparing, input, dropped, focused,
              hoverTarget, hoverFired, hoverRefired, firedStale >>

serviceVars == << groups, nextId >>

renderVars == << clientWidth, template, lastRender >>

listVars == << rows, selection, focus, instancesDirty, activeQueue, lastInput >>

vars == << activeInstance, serviceVars, dndVars, lastEvent, renderVars, listVars >>

(* ======================== the terminal service ========================= *)

\* ITerminalService.terminalInstances: the groups' instances, in order
TerminalInstances(gs) == Flatten(gs)

NoGroup == << >>

\* ITerminalService.getGroupForInstance
GetGroupForInstance(gs, instance) ==
    IF \E k \in DOMAIN gs : IndexOf(gs[k], instance) >= 0
    THEN gs[CHOOSE k \in DOMAIN gs : IndexOf(gs[k], instance) >= 0]
    ELSE NoGroup

\* createTerminal: a new group holding the new instance
GroupsAfterCreate(gs, id) == Append(gs, << id >>)

\* splitInstance: the new instance joins the group, after the one split
GroupsAfterSplit(gs, instance, id) ==
    [k \in DOMAIN gs |->
        LET at == IndexOf(gs[k], instance) + 1
        IN  IF at = 0 THEN gs[k]
            ELSE SubSeq(gs[k], 1, at) \o << id >> \o SubSeq(gs[k], at + 1, Len(gs[k]))]

\* instance.dispose(): the instance leaves its group, an empty group goes
GroupsAfterDispose(gs, instance) ==
    LET left == [k \in DOMAIN gs |-> SelectSeq(gs[k], LAMBDA x : x # instance)]
    IN  SelectSeq(left, LAMBDA g : g # << >>)

InstanceIds == 1 .. MaxInstances

ServiceCreateTerminal ==
    /\ nextId <= MaxInstances
    /\ groups' = GroupsAfterCreate(groups, nextId)
    /\ nextId' = nextId + 1

ServiceSplitInstance(instance) ==
    /\ nextId <= MaxInstances
    /\ IndexOf(TerminalInstances(groups), instance) >= 0
    /\ groups' = GroupsAfterSplit(groups, instance, nextId)
    /\ nextId' = nextId + 1

ServiceDisposeInstance(instance) ==
    /\ IndexOf(TerminalInstances(groups), instance) >= 0
    /\ groups' = GroupsAfterDispose(groups, instance)
    /\ UNCHANGED nextId

(* ============================ TerminalTabList ========================== *)

\* e.index of a list mouse event: a row's index, or undefined (here -1)
NoIndex == None - 1

NoInput == [op |-> "none", index |-> NoIndex, element |-> None, altKey |-> FALSE,
            focusMode |-> "", focusCalled |-> None]

RowIndexes(rs) == 0 .. Len(rs) - 1

\* e.element of a list mouse event at e.index
ElementAt(rs, index) == IF index \in RowIndexes(rs) THEN rs[index + 1] ELSE None

\* getSelectedElements()
SelectedElements(rs, sel) == { rs[i + 1] : i \in sel }

\* List.splice(0, length, elements): a trait (selection, focus) stays with the
\* elements of the same identity (identityProvider: instanceId)
SpliceTrait(oldRows, trait, newRows) ==
    { i \in RowIndexes(newRows) : newRows[i + 1] \in SelectedElements(oldRows, trait) }

\* List.setSelection(indexes) throws on an index outside the list
SetSelectionThrows(rs, indexes) == \E i \in indexes : i < 0 \/ i >= Len(rs)

\* setActiveInstance(instance) of the service, and the notification it fires
SetActiveInstance(instance) ==
    /\ activeInstance' = instance
    /\ activeQueue' = IF instance # activeInstance THEN Append(activeQueue, instance)
                      ELSE activeQueue

CanNotify == Len(activeQueue) < MaxPending

ListFrame == UNCHANGED << dndVars, lastEvent, renderVars >>

\* render(): splice(0, length, terminalInstances)
Render ==
    LET newRows == TerminalInstances(groups)
    IN  /\ rows' = newRows
        /\ selection' = SpliceTrait(rows, selection, newRows)
        /\ focus' = SpliceTrait(rows, focus, newRows)

\* onInstancesChanged(() => this.render())
OnInstancesChanged ==
    /\ instancesDirty
    /\ Render
    /\ instancesDirty' = FALSE
    /\ lastInput' = NoInput
    /\ UNCHANGED << activeInstance, serviceVars, activeQueue >>
    /\ ListFrame

\* onInstanceTitleChanged, onInstanceIconChanged, onInstancePrimaryStatusChanged
OnInstanceAttributeChanged ==
    /\ Render
    /\ lastInput' = NoInput
    /\ UNCHANGED << activeInstance, serviceVars, activeQueue, instancesDirty >>
    /\ ListFrame

\* The index onActiveInstanceChanged selects for instance e, line 94
ActiveIndex(e) == IndexOf(TerminalInstances(groups), e)

\* onActiveInstanceChanged(e => ...), lines 92-98
OnActiveInstanceChanged ==
    /\ activeQueue # << >>
    /\ LET e == Head(activeQueue)
           i == ActiveIndex(e)
       IN  /\ selection' = IF e # None /\ ~SetSelectionThrows(rows, {i}) THEN {i}
                           ELSE selection
           /\ lastInput' = [NoInput EXCEPT !.op = "activeInstanceChanged", !.element = e,
                               !.index = IF e # None THEN i ELSE NoIndex]
    /\ activeQueue' = Tail(activeQueue)
    /\ UNCHANGED << activeInstance, serviceVars, rows, focus, instancesDirty >>
    /\ ListFrame

\* Whether onMouseDblClick creates a terminal, line 101
DblClickCreates(index) == Cardinality(focus) = 0

\* onMouseDblClick(async () => ...), lines 100-106
OnMouseDblClick(index) ==
    /\ IF DblClickCreates(index)
       THEN /\ nextId <= MaxTabs
            /\ CanNotify
            /\ groups' = GroupsAfterCreate(groups, nextId)
            /\ nextId' = nextId + 1
            /\ instancesDirty' = TRUE
            /\ SetActiveInstance(nextId)
            /\ lastInput' = [NoInput EXCEPT !.op = "dblClick", !.index = index,
                                !.element = ElementAt(rows, index),
                                !.focusCalled = nextId]
       ELSE /\ lastInput' = [NoInput EXCEPT !.op = "dblClick", !.index = index,
                                !.element = ElementAt(rows, index)]
            /\ UNCHANGED << activeInstance, serviceVars, instancesDirty, activeQueue >>
    /\ UNCHANGED << rows, selection, focus >>
    /\ ListFrame

\* Whether the click handler focuses the clicked element, lines 114-117
ClickFocusesAnySelection(focusMode, sel) == focusMode = "singleClick"
ClickFocuses(focusMode, sel) == focusMode = "singleClick" /\ Cardinality(sel) <= 1

\* onMouseClick(e => ...), lines 110-119
OnMouseClick(index, altKey, focusMode) ==
    LET element == ElementAt(rows, index)
        splits == altKey /\ element # None
        inService == IndexOf(TerminalInstances(groups), element) >= 0
    IN  /\ IF splits /\ inService
           THEN /\ nextId <= MaxTabs
                /\ groups' = GroupsAfterSplit(groups, element, nextId)
                /\ nextId' = nextId + 1
                /\ instancesDirty' = TRUE
           ELSE UNCHANGED << serviceVars, instancesDirty >>
        /\ UNCHANGED << activeInstance, activeQueue >>
        /\ lastInput' = [NoInput EXCEPT !.op = "click", !.index = index, !.element = element,
                            !.altKey = altKey, !.focusMode = focusMode,
                            !.focusCalled = IF ~splits /\ ClickFocuses(focusMode, selection)
                                            THEN element ELSE None]
        /\ UNCHANGED << rows, selection, focus >>
        /\ ListFrame

\* The focus after a right click on the row at index, lines 128-131
FocusAfterContextMenuAlways(index, rs, sel, foc) == {index}
FocusAfterContextMenu(index, rs, sel, foc) ==
    IF ElementAt(rs, index) \notin SelectedElements(rs, sel) THEN {index} ELSE foc

\* onContextMenu(e => ...), lines 123-132
OnContextMenu(index) ==
    LET element == ElementAt(rows, index)
    IN  /\ IF element = None
           THEN /\ selection' = {}
                /\ UNCHANGED focus
           ELSE /\ focus' = FocusAfterContextMenu(index, rows, selection, focus)
                /\ UNCHANGED selection
        /\ lastInput' = [NoInput EXCEPT !.op = "contextMenu", !.index = index,
                            !.element = element]
        /\ UNCHANGED << activeInstance, serviceVars, rows, instancesDirty, activeQueue >>
        /\ ListFrame

\* onDidOpen(async e => ...), lines 144-153
OnDidOpen(index) ==
    LET instance == ElementAt(rows, index)
        inService == IndexOf(TerminalInstances(groups), instance) >= 0
    IN  /\ IF instance # None /\ inService
           THEN CanNotify /\ SetActiveInstance(instance)
           ELSE UNCHANGED << activeInstance, activeQueue >>
        /\ lastInput' = NoInput
        /\ UNCHANGED << serviceVars, rows, selection, focus, instancesDirty >>
        /\ ListFrame

\* The AUXCLICK listener of renderElement, lines 292-296: a middle click on a
\* row disposes its instance; the service then picks the active instance.
OnMiddleClick(index) ==
    LET instance == ElementAt(rows, index)
        left == GroupsAfterDispose(groups, instance)
        remaining == TerminalInstances(left)
    IN  /\ instance # None
        /\ IndexOf(TerminalInstances(groups), instance) >= 0
        /\ groups' = left
        /\ instancesDirty' = TRUE
        /\ IF activeInstance = instance
           THEN /\ CanNotify
                /\ SetActiveInstance(IF remaining = << >> THEN None
                                     ELSE remaining[Len(remaining)])
           ELSE UNCHANGED << activeInstance, activeQueue >>
        /\ lastInput' = NoInput
        /\ UNCHANGED << nextId, rows, selection, focus >>
        /\ ListFrame

\* The list's own mouse and keyboard handling: the user adds a row to the
\* selection or takes it out (ctrl+click).
UserTogglesSelection(index) ==
    /\ selection' = IF index \in selection THEN selection \ {index}
                    ELSE selection \cup {index}
    /\ lastInput' = NoInput
    /\ UNCHANGED << activeInstance, serviceVars, rows, focus, instancesDirty, activeQueue >>
    /\ ListFrame

\* The constructor's render() of the service's instances.
InitList ==
    /\ rows = TerminalInstances(groups)
    /\ selection = {}
    /\ focus = {}
    /\ instancesDirty = FALSE
    /\ activeQueue = << >>
    /\ lastInput = NoInput

FocusModes == { "singleClick", "doubleClick" }

NextList ==
    \/ OnInstancesChanged
    \/ OnInstanceAttributeChanged
    \/ OnActiveInstanceChanged
    \/ \E i \in RowIndexes(rows) \cup {NoIndex} : OnMouseDblClick(i)
    \/ \E i \in RowIndexes(rows) \cup {NoIndex}, alt \in BOOLEAN, m \in FocusModes :
            OnMouseClick(i, alt, m)
    \/ \E i \in RowIndexes(rows) \cup {NoIndex} : OnContextMenu(i)
    \/ \E i \in RowIndexes(rows) : OnDidOpen(i)
    \/ \E i \in RowIndexes(rows) : OnMiddleClick(i)
    \/ \E i \in RowIndexes(rows) : UserTogglesSelection(i)

(* ======================== TerminalTabsRenderer ========================= *)

NoIcon == ""

\* instance.icon?.id: every third instance was launched without an icon
IconId(instance) == IF instance % 3 = 0 THEN NoIcon ELSE "terminal"

\* instance.statusList.statuses: every second instance rings its bell
Statuses(instance) ==
    IF instance % 2 = 0
    THEN << [id |-> "bell", severity |-> 2, icon |-> "bell", hoverActions |-> << "configure" >>] >>
    ELSE << >>

NoStatus == [id |-> "", severity |-> SeverityIgnore, icon |-> NoIcon, hoverActions |-> << >>]

\* instance.statusList.primary
PrimaryStatus(instance) ==
    IF Statuses(instance) = << >> THEN NoStatus ELSE Statuses(instance)[1]

NoLabel == [prefix |-> "", icon |-> NoIcon, title |-> None, description |-> FALSE,
            tooltip |-> [title |-> None, statuses |-> << >>]]

\* renderTemplate: the template of a new row
NewTemplate == [hasText |-> FALSE, hoverActions |-> << >>, actionBar |-> << >>,
                listeners |-> 0, label |-> NoLabel]

RenderFrame == UNCHANGED << activeInstance, dndVars, lastEvent, listVars >>

ShouldHideText(width) == width < MidpointViewWidth

ShouldHideActionBarStrict(width) == width < ActionbarMinimumWidth
ShouldHideActionBar(width) == width <= ActionbarMinimumWidth

\* renderElement, lines 235-245
PrefixOffByOne(group, instance) ==
    IF Len(group) > 1
    THEN LET terminalIndex == IndexOf(group, instance)
         IN  IF terminalIndex = 0 THEN "top"
             ELSE IF terminalIndex = Len(group) THEN "bottom"
             ELSE "middle"
    ELSE ""
Prefix(group, instance) ==
    IF Len(group) > 1
    THEN LET terminalIndex == IndexOf(group, instance)
         IN  IF terminalIndex = 0 THEN "top"
             ELSE IF terminalIndex = Len(group) - 1 THEN "bottom"
             ELSE "middle"
    ELSE ""

\* fillActionBar: the bar cleared, then the split and kill actions of the instance
FillActionBar(instance) ==
    << [id |-> "SplitInstance", instance |-> instance],
       [id |-> "KillInstance", instance |-> instance] >>

RECURSIVE HoverActionsOf(_)
HoverActionsOf(statuses) ==
    IF statuses = << >> THEN << >>
    ELSE Head(statuses).hoverActions \o HoverActionsOf(Tail(statuses))

\* renderElement, lines 232-312: the template of a row whose group was found
RenderedTemplate(instance, group, tpl, width) ==
    LET hasText == ~ShouldHideText(width)
        prefix == Prefix(group, instance)
        hasActionbar == ~ShouldHideActionBar(width)
        primaryStatus == PrimaryStatus(instance)
        icon == IF ~hasText /\ primaryStatus.severity > SeverityIgnore
                   /\ primaryStatus.icon # NoIcon
                THEN primaryStatus.icon ELSE IconId(instance)
        filled == IF hasText THEN FillActionBar(instance) ELSE tpl.actionBar
    IN  [hasText |-> hasText,
         hoverActions |-> HoverActionsOf(Statuses(instance)),
         actionBar |-> IF ~hasActionbar THEN << >> ELSE filled,
         listeners |-> tpl.listeners + 1,
         label |-> [prefix |-> prefix,
                    icon |-> icon,
                    title |-> IF hasText /\ IconId(instance) # NoIcon THEN instance ELSE None,
                    description |-> hasText,
                    tooltip |-> [title |-> instance,
                                 statuses |-> [k \in DOMAIN Statuses(instance) |->
                                                  Statuses(instance)[k].id]]]]

\* renderElement: what the call does to the row's template, and whether it throws
RenderOutcomeLateCheck(instance, gs, tpl, width) ==
    LET group == GetGroupForInstance(gs, instance)
    IN  IF group = NoGroup
        THEN [threw |-> TRUE, template |-> [tpl EXCEPT !.hasText = ~ShouldHideText(width)]]
        ELSE [threw |-> FALSE, template |-> RenderedTemplate(instance, group, tpl, width)]
RenderOutcome(instance, gs, tpl, width) ==
    LET group == GetGroupForInstance(gs, instance)
    IN  IF group = NoGroup
        THEN [threw |-> TRUE, template |-> tpl]
        ELSE [threw |-> FALSE, template |-> RenderedTemplate(instance, group, tpl, width)]

NoRender == [instance |-> None, threw |-> FALSE, before |-> NewTemplate]

RenderElement(instance) ==
    LET outcome == RenderOutcome(instance, groups, template, clientWidth)
    IN  /\ ~outcome.threw => template.listeners < MaxListeners
        /\ template' = outcome.template
        /\ lastRender' = [instance |-> instance, threw |-> outcome.threw, before |-> template]
        /\ UNCHANGED << clientWidth, serviceVars >>
        /\ RenderFrame

\* disposeElement: the row's listeners go
DisposeElement ==
    /\ template.listeners > 0
    /\ template' = [template EXCEPT !.listeners = 0]
    /\ lastRender' = NoRender
    /\ UNCHANGED << clientWidth, serviceVars >>
    /\ RenderFrame

ClientWidths == { NarrowViewWidth, MidpointViewWidth - 1, MidpointViewWidth,
                  WideViewMinimumWidth, ActionbarMinimumWidth,
                  ActionbarMinimumWidth + 1, DefaultWidth }

\* The view is resized.
Resize(width) ==
    /\ width # clientWidth
    /\ clientWidth' = width
    /\ lastRender' = NoRender
    /\ UNCHANGED << template, serviceVars >>
    /\ RenderFrame

\* The service's instances change between two renders.
RendererFrame == lastRender' = NoRender /\ UNCHANGED << clientWidth, template >> /\ RenderFrame

TerminalCreated == ServiceCreateTerminal /\ RendererFrame

TerminalSplit(instance) == ServiceSplitInstance(instance) /\ RendererFrame

TerminalDisposed(instance) == ServiceDisposeInstance(instance) /\ RendererFrame

InitRenderer ==
    /\ clientWidth = DefaultWidth
    /\ template = NewTemplate
    /\ lastRender = NoRender

(* ===================== TerminalTabsDragAndDrop ========================= *)

\* The dataTransfer of a drag of the list's own rows (ElementsDragAndDropData).
InternalDataTransfer == [present |-> TRUE, resources |-> << >>, files |-> << >>]

\* The list and the renderer are not part of the drag-and-drop specification:
\* what setActiveInstance notifies the list of is SpecList's.
DndFrame == UNCHANGED << serviceVars, renderVars, listVars >>

DndTargets == 1 .. NumDndTargets
Slots == 1 .. NumSlots

NoEvent == [op |-> "none", target |-> None, external |-> FALSE, path |-> NoPath,
            cancelled |-> None]

PendingSlots(ts) == { s \in Slots : ts[s] # None }
FreeSlots(ts) == Slots \ PendingSlots(ts)
NewSlot(ts) == CHOOSE s \in FreeSlots(ts) : \A t \in FreeSlots(ts) : s <= t

\* disposableTimeout(...).dispose(): clearTimeout of the handle; a no-op on
\* Disposable.None and on a timeout that already ran.
DisposeLeak(ts, handle) == ts
Dispose(ts, handle) ==
    IF handle # None /\ ts[handle] # None THEN [ts EXCEPT ![handle] = None] ELSE ts

\* onDragOver(data, targetInstance, ...); isElements: data instanceof ElementsDragAndDropData
OnDragOver(isElements, targetInstance) ==
    LET didChangeAutoFocusInstance == autoFocusInstance # targetInstance
        ts1 == IF didChangeAutoFocusInstance
               THEN Dispose(timers, autoFocusDisposable) ELSE timers
        isExternalDragOver == ~isElements
        arm == targetInstance # None /\ didChangeAutoFocusInstance /\ isExternalDragOver
        wasPending == PendingSlots(timers) \ PendingSlots(ts1)
    IN  /\ arm => FreeSlots(ts1) # {}
        /\ autoFocusInstance' = IF didChangeAutoFocusInstance THEN targetInstance
                                ELSE autoFocusInstance
        /\ timers' = IF arm THEN [ts1 EXCEPT ![NewSlot(ts1)] = targetInstance] ELSE ts1
        /\ autoFocusDisposable' = IF arm THEN NewSlot(ts1) ELSE autoFocusDisposable
        /\ hoverTarget' = targetInstance
        /\ hoverFired' = (targetInstance = hoverTarget /\ hoverFired)
        /\ hoverRefired' = (targetInstance = hoverTarget /\ hoverRefired)
        /\ lastEvent' = [NoEvent EXCEPT !.op = "onDragOver", !.target = targetInstance,
                            !.cancelled = IF wasPending = {} THEN None
                                          ELSE timers[CHOOSE s \in wasPending : TRUE]]
        /\ UNCHANGED << activeInstance, preparing, input, dropped, focused, firedStale >>
        /\ DndFrame

\* The callback of the timeout onDragOver set, run by the event loop 500ms later.
AutoFocusTimeout(s) ==
    /\ timers[s] # None
    /\ activeInstance' = timers[s]
    /\ autoFocusInstance' = None
    /\ timers' = [timers EXCEPT ![s] = None]
    /\ hoverFired' = (hoverFired \/ timers[s] = hoverTarget)
    /\ hoverRefired' = (hoverRefired \/ (hoverFired /\ timers[s] = hoverTarget))
    /\ firedStale' = (firedStale \/ timers[s] # hoverTarget)
    /\ lastEvent' = [NoEvent EXCEPT !.op = "autoFocus", !.target = timers[s]]
    /\ UNCHANGED << autoFocusDisposable, preparing, input, dropped, focused, hoverTarget >>
    /\ DndFrame

\* _handleExternalDrop, lines 453-465: the path of the first resource, else of
\* the first file, else undefined.
ExtractPath(dataTransfer) ==
    IF dataTransfer.resources # << >>
    THEN FsPath(dataTransfer.resources[1])
    ELSE IF Len(dataTransfer.files) > 0 /\ dataTransfer.files[1] # NoPath
         THEN FsPath(UriFile(dataTransfer.files[1]))
         ELSE NoPath

\* Whether _handleExternalDrop(instance, e) goes past its two early returns.
HandlesExternalDrop(instance, dataTransfer) ==
    /\ instance # None
    /\ dataTransfer.present
    /\ ExtractPath(dataTransfer) # NoPath

RECURSIVE Sum(_, _)
Sum(f, S) == IF S = {} THEN 0
             ELSE LET x == CHOOSE y \in S : TRUE IN f[x] + Sum(f, S \ {x})

\* drop(data, targetInstance, ...) with _handleExternalDrop up to its await.
Drop(isElements, targetInstance, dataTransfer) ==
    LET isExternalDrop == ~isElements
        handled == isExternalDrop /\ HandlesExternalDrop(targetInstance, dataTransfer)
        path == ExtractPath(dataTransfer)
    IN  /\ handled => Sum(dropped, DOMAIN dropped) < MaxDrops
        /\ timers' = Dispose(timers, autoFocusDisposable)
        /\ autoFocusInstance' = None
        /\ activeInstance' = IF handled THEN targetInstance ELSE activeInstance
        /\ preparing' = IF handled
                        THEN [preparing EXCEPT ![targetInstance, path] = @ + 1]
                        ELSE preparing
        /\ dropped' = IF handled
                      THEN [dropped EXCEPT ![targetInstance, path] = @ + 1]
                      ELSE dropped
        /\ hoverTarget' = None
        /\ hoverFired' = FALSE
        /\ hoverRefired' = FALSE
        /\ lastEvent' = [NoEvent EXCEPT !.op = "drop", !.target = targetInstance,
                            !.external = isExternalDrop,
                            !.path = IF dataTransfer.present THEN path ELSE NoPath]
        /\ UNCHANGED << autoFocusDisposable, input, focused, firedStale >>
        /\ DndFrame

\* The instance line 470 sends the text to: the one the call captured.
SendTextTargetActive(instance) == activeInstance
SendTextTarget(instance) == instance

\* _handleExternalDrop after its await, lines 470-471, for a call that
\* captured instance and path.
PathPrepared(instance, path) ==
    LET preparedPath == PreparePathForTerminalAsync(path)
    IN  /\ preparing[instance, path] > 0
        /\ preparing' = [preparing EXCEPT ![instance, path] = @ - 1]
        /\ input' = [input EXCEPT ![SendTextTarget(instance), preparedPath] = @ + 1]
        /\ focused' = instance
        /\ lastEvent' = [NoEvent EXCEPT !.op = "pathPrepared", !.target = instance,
                            !.path = path]
        /\ UNCHANGED << activeInstance, autoFocusInstance, autoFocusDisposable, timers,
                        dropped, hoverTarget, hoverFired, hoverRefired, firedStale >>
        /\ DndFrame

PreparedTexts == { PreparePathForTerminalAsync(p) : p \in Paths }

InitDragAndDrop ==
    /\ autoFocusInstance = None
    /\ autoFocusDisposable = None
    /\ timers = [s \in Slots |-> None]
    /\ preparing = [d \in DndTargets \X Paths |-> 0]
    /\ input = [d \in DndTargets \X PreparedTexts |-> 0]
    /\ dropped = [d \in DndTargets \X Paths |-> 0]
    /\ focused = None
    /\ hoverTarget = None
    /\ hoverFired = FALSE
    /\ hoverRefired = FALSE
    /\ firedStale = FALSE
    /\ lastEvent = NoEvent

\* A window whose service holds one terminal per row a drag can target.
InitDnd ==
    /\ groups = [i \in DndTargets |-> << i >>]
    /\ nextId = NumDndTargets + 1
    /\ activeInstance = None
    /\ InitRenderer
    /\ InitList
    /\ InitDragAndDrop

NextDnd ==
    \/ \E isElements \in BOOLEAN, t \in DndTargets \cup {None} : OnDragOver(isElements, t)
    \/ \E s \in Slots : AutoFocusTimeout(s)
    \/ \E t \in DndTargets \cup {None}, dt \in DataTransferValues : Drop(FALSE, t, dt)
    \/ \E t \in DndTargets \cup {None} : Drop(TRUE, t, InternalDataTransfer)
    \/ \E t \in DndTargets, p \in Paths : PathPrepared(t, p)

SpecDnd == InitDnd /\ [][NextDnd]_vars

\* A window whose service holds no terminal yet.
InitTabs ==
    /\ groups = << >>
    /\ nextId = 1
    /\ activeInstance = None
    /\ InitRenderer
    /\ InitList
    /\ InitDragAndDrop

NextRender ==
    \/ TerminalCreated
    \/ \E i \in InstanceIds : TerminalSplit(i)
    \/ \E i \in InstanceIds : TerminalDisposed(i)
    \/ \E w \in ClientWidths : Resize(w)
    \/ \E i \in InstanceIds : RenderElement(i)
    \/ DisposeElement

SpecRender == InitTabs /\ [][NextRender]_vars

SpecList == InitTabs /\ [][NextList]_vars

(* --------------------------- claims on the list ------------------------ *)

\* C7: a right click on a row leaves the selection as it is; it sets the
\* focus to exactly that row, unless the row's element is among the selected
\* elements, and then the focus is left as it is too.
C7_ContextMenuFocus ==
    [][ (lastInput'.op = "contextMenu" /\ lastInput'.element # None)
            => /\ selection' = selection
               /\ rows[lastInput'.index + 1] \in SelectedElements(rows, selection)
                    => focus' = focus
               /\ rows[lastInput'.index + 1] \notin SelectedElements(rows, selection)
                    => focus' = {lastInput'.index} ]_vars

\* A right click on one of two selected rows, the focus staying on the other row.
C7_Witness ==
    /\ lastInput.op = "contextMenu"
    /\ lastInput.element # None
    /\ Cardinality(selection) > 1
    /\ lastInput.index \in selection
    /\ focus # {}
    /\ focus # {lastInput.index}

\* C8: a double click on empty space (no row under the pointer) creates one
\* new terminal and makes it the active instance, also when a row holds the
\* list focus.
C8_DblClickOnEmptySpaceCreates ==
    (lastInput.op = "dblClick" /\ lastInput.index = NoIndex)
        => /\ lastInput.focusCalled # None
           /\ activeInstance = lastInput.focusCalled
           /\ Count(TerminalInstances(groups), lastInput.focusCalled) = 1

ClickedRow == lastInput.op = "click" /\ lastInput.element # None

C10_ActiveChangeSelectsItsRow ==
    (lastInput.op = "activeInstanceChanged" /\ lastInput.element # None)
        => \E i \in RowIndexes(rows) :
              /\ lastInput.index = i
              /\ selection = {i}
              /\ rows[i + 1] = lastInput.element

(* ------------------------- claims on the renderer ---------------------- *)

Rendered == lastRender.instance # None /\ ~lastRender.threw

RenderedGroup == GetGroupForInstance(groups, lastRender.instance)

\* C4: renderElement of an instance that getGroupForInstance finds no group
\* for throws, and the row template is as it was before the call (has-text
\* class, hover actions, action bar, listeners, label).
C4_NoGroupThrowsBeforeChange ==
    lastRender.instance # None
        => /\ lastRender.threw <=> (RenderedGroup = NoGroup)
           /\ lastRender.threw => template = lastRender.before

\* A used template (filled action bar, a listener) met an instance without group.
C4_Witness ==
    /\ lastRender.instance # None
    /\ lastRender.threw
    /\ lastRender.before.actionBar # << >>
    /\ lastRender.before.listeners > 0
    /\ lastRender.before.hasText # ~ShouldHideText(clientWidth)

\* C5: the label prefix of a rendered instance follows from its place in its
\* group alone: none in a group of one; otherwise top for the first member,
\* bottom for the last, middle for any other.
C5_PrefixByPosition ==
    Rendered =>
        LET g == RenderedGroup
            i == lastRender.instance
        IN  template.label.prefix =
                CASE Len(g) = 1 -> ""
                  [] Len(g) > 1 /\ g[1] = i -> "top"
                  [] Len(g) > 1 /\ g[1] # i /\ g[Len(g)] = i -> "bottom"
                  [] OTHER -> "middle"

\* The middle member of a group of three was rendered into a template that
\* showed another prefix.
C5_Witness ==
    /\ Rendered
    /\ Len(RenderedGroup) = 3
    /\ RenderedGroup[2] = lastRender.instance
    /\ template.label.prefix = "middle"
    /\ lastRender.before.label.prefix = "bottom"

\* C6: after a renderElement call that returned, whatever the template held
\* before, the action bar holds the split and kill actions of the rendered
\* instance if clientWidth > ActionbarMinimumWidth, and is empty otherwise.
C6_ActionBarByWidth ==
    Rendered =>
        IF clientWidth > ActionbarMinimumWidth
        THEN /\ Len(template.actionBar) = 2
             /\ template.actionBar[1] = [id |-> "SplitInstance", instance |-> lastRender.instance]
             /\ template.actionBar[2] = [id |-> "KillInstance", instance |-> lastRender.instance]
        ELSE template.actionBar = << >>

\* A template with a filled action bar was rendered again at the threshold
\* width with the text shown, and its action bar is empty.
C6_Witness ==
    /\ Rendered
    /\ lastRender.before.actionBar # << >>
    /\ clientWidth = ActionbarMinimumWidth
    /\ template.hasText
    /\ template.actionBar = << >>

(* ------------------- claims on the drag-and-drop handler --------------- *)

\* C1: during one hover of external drag data over a row (consecutive
\* onDragOver events with the same target), the auto-focus timer calls
\* setActiveInstance for that row once and not again, however many
\* onDragOver events for the row follow the timer's firing.
C1_ActivatedOncePerHover == ~hoverRefired

\* C2: at most one auto-focus timeout is pending; a pending timeout targets
\* the row most recently dragged over (so a drag-over of another target has
\* cancelled the previous row's timeout), and no timeout ever activated a row
\* other than the one most recently dragged over.
C2_SingleTimerForLatestTarget ==
    /\ Cardinality(PendingSlots(timers)) <= 1
    /\ \A s \in PendingSlots(timers) : timers[s] = hoverTarget
    /\ ~firedStale

\* An onDragOver moved from a row with a pending timeout to another row, and
\* armed that row's timeout.
C2_Witness ==
    /\ lastEvent.op = "onDragOver"
    /\ lastEvent.cancelled # None
    /\ lastEvent.target # None
    /\ lastEvent.target # lastEvent.cancelled
    /\ PendingSlots(timers) # {}

\* Each instance received each text as often as drops on that instance whose
\* path makes that text have been prepared: no text of a drop still at its
\* await, none twice, none of a drop on another instance.
SentExactlyOnce ==
    \A r \in DndTargets :
        \A t \in PreparedTexts :
            LET making == { d \in {r} \X { p \in Paths : PreparePathForTerminalAsync(p) = t } :
                              TRUE }
            IN  input[r, t] = Sum(dropped, making) - Sum(preparing, making)

\* The drop made r active and its call waits for the path's preparation.
DropStarted(r, path) ==
    /\ activeInstance = r
    /\ preparing[r, path] > 0

\* C3 as stated: every drop of external data on a row R activates R and
\* starts the preparation of a path whose text is sent to R exactly once.
C3_EveryExternalDropSends ==
    /\ (lastEvent.op = "drop" /\ lastEvent.external /\ lastEvent.target # None)
            => DropStarted(lastEvent.target, lastEvent.path)
    /\ SentExactlyOnce

\* C3 amended: a drop of external data on a row R from whose payload a
\* filesystem path can be taken (a resource list, or a file with a path)
\* activates R before anything is sent; once the path is prepared its text
\* is sent once, to R and to no other row, and R.focus() follows; drops in
\* flight completing in any order each reach only their own row.
C3_ExternalDropWithPathSends ==
    /\ (lastEvent.op = "drop" /\ lastEvent.external /\ lastEvent.target # None
            /\ lastEvent.path # NoPath)
            => DropStarted(lastEvent.target, lastEvent.path)
    /\ SentExactlyOnce
    /\ lastEvent.op = "pathPrepared"
            => /\ focused = lastEvent.target
               /\ input[lastEvent.target, PreparePathForTerminalAsync(lastEvent.path)] > 0

\* A drop's text reached its row while a later drop on another row, with
\* another path, was still being prepared, the other row being the active one.
C3_Witness ==
    /\ lastEvent.op = "pathPrepared"
    /\ activeInstance # lastEvent.target
    /\ \E r \in DndTargets \ {lastEvent.target} :
          \E p \in Paths \ {lastEvent.path} :
              /\ activeInstance = r
              /\ preparing[r, p] > 0
    /\ input[lastEvent.target, PreparePathForTerminalAsync(lastEvent.path)] = 1

====
